---- MODULE Spec2Model ----
(***************************************************************************)
(* Model of the exam-analysis dashboard front ends:                        *)
(*   website/app.js  the Vue application (parallel fetch, API with local   *)
(*                   fallback computations)                                *)
(*   docs/app.js     the static-page application (sequential fetch, all    *)
(*                   computations local)                                   *)
(* A JavaScript string is a sequence of one-character strings, so that     *)
(* toLowerCase, replace, trim, includes and the regular expression         *)
(* /Chapter (\d+)/ are computed character by character. An optional        *)
(* property of a JSON object is a field that is or is not in the DOMAIN   *)
(* of the record.                                                          *)
(***************************************************************************)
EXTENDS Integers, Sequences, FiniteSets, TLC

(***************************************************************************)
(* Bounds                                                                  *)
(***************************************************************************)
\* longest question collection a server answers with
MaxQuestions == 2

(***************************************************************************)
(* JavaScript values                                                       *)
(***************************************************************************)
\* null, the initial value of curriculumData, questionsData and error
NULL == [null |-> TRUE]

\* a local variable of a function that has run: unlike a bare array or
\* object, it can be told from NULL whatever it holds
Computed(v) == [value |-> v]

\* undefined as a value (an element of a Set, the result of ?.[1])
undefined == [undefined |-> TRUE]

\* a string value held where any JavaScript value may be held
Str(s) == [string |-> s]

\* {} : an object with no own property
EmptyObject == [k \in {} |-> 0]

\* obj[key] = (obj[key] || 0) + 1
Increment(obj, key) ==
    IF key \in DOMAIN obj THEN [obj EXCEPT ![key] = @ + 1]
    ELSE obj @@ (key :> 1)

\* obj[key] || 0
CountAt(obj, key) == IF key \in DOMAIN obj THEN obj[key] ELSE 0

\* q.f is not undefined
Has(q, f) == f \in DOMAIN q

(***************************************************************************)
(* Characters and strings                                                  *)
(***************************************************************************)
UpperCase ==
    <<"A", "B", "C", "D", "E", "F", "G", "H", "I", "J", "K", "L", "M",
      "N", "O", "P", "Q", "R", "S", "T", "U", "V", "W", "X", "Y", "Z">>

LowerCase ==
    <<"a", "b", "c", "d", "e", "f", "g", "h", "i", "j", "k", "l", "m",
      "n", "o", "p", "q", "r", "s", "t", "u", "v", "w", "x", "y", "z">>

Digits == {"0", "1", "2", "3", "4", "5", "6", "7", "8", "9"}

\* the letters toLowerCase changes, each with the letter it becomes
LowerOf == [c \in {UpperCase[i] : i \in DOMAIN UpperCase} |->
               LowerCase[CHOOSE i \in DOMAIN UpperCase : UpperCase[i] = c]]

\* \w of a JavaScript regular expression: [A-Za-z0-9_]
WordChars ==
    {UpperCase[i] : i \in DOMAIN UpperCase}
        \cup {LowerCase[i] : i \in DOMAIN LowerCase} \cup Digits \cup {"_"}

IsWordChar(c) == c \in WordChars

\* \s of a JavaScript regular expression, and the characters trim() removes
IsWhiteSpace(c) == c \in {" ", "\t", "\n", "\r"}

LowerChar(c) == IF c \in DOMAIN LowerOf THEN LowerOf[c] ELSE c

\* String.prototype.toLowerCase
toLowerCase(s) == [i \in 1..Len(s) |-> LowerChar(s[i])]

\* s.replace(/[^\w\s]/g, ' '): punctuation becomes a blank
StripPunctuationToSpace(s) ==
    [i \in 1..Len(s) |-> IF IsWordChar(s[i]) \/ IsWhiteSpace(s[i]) THEN s[i] ELSE " "]

\* s.replace(/[^\w\s]/g, '')
StripPunctuation(s) == SelectSeq(s, LAMBDA c : IsWordChar(c) \/ IsWhiteSpace(c))

RECURSIVE TrimStart(_)
TrimStart(s) ==
    IF s # <<>> /\ IsWhiteSpace(Head(s)) THEN TrimStart(Tail(s)) ELSE s

RECURSIVE TrimEnd(_)
TrimEnd(s) ==
    IF s # <<>> /\ IsWhiteSpace(s[Len(s)])
    THEN TrimEnd(SubSeq(s, 1, Len(s) - 1)) ELSE s

\* String.prototype.trim
trim(s) == TrimEnd(TrimStart(s))

\* String.prototype.includes
includes(s, t) ==
    \E i \in 1..(Len(s) - Len(t) + 1) : SubSeq(s, i, i + Len(t) - 1) = t

\* normalizeText(text): text.toLowerCase().replace(/[^\w\s]/g, '').trim()
normalizeText(text) == trim(StripPunctuation(toLowerCase(text)))

(***************************************************************************)
(* The regular expression /Chapter (\d+)/                                  *)
(***************************************************************************)
ChapterLiteral == <<"C", "h", "a", "p", "t", "e", "r", " ">>

\* length of the digit run of s that starts at position i
RECURSIVE DigitRun(_, _)
DigitRun(s, i) ==
    IF i <= Len(s) /\ s[i] \in Digits THEN 1 + DigitRun(s, i + 1) ELSE 0

\* the expression matches at position i: the literal, then at least one digit
MatchesAt(s, i) ==
    /\ i + Len(ChapterLiteral) <= Len(s)
    /\ SubSeq(s, i, i + Len(ChapterLiteral) - 1) = ChapterLiteral
    /\ s[i + Len(ChapterLiteral)] \in Digits

\* s.match(/Chapter (\d+)/g) from position i on: the matched substrings, left
\* to right, not overlapping, each with its whole digit run
RECURSIVE MatchAllFrom(_, _)
MatchAllFrom(s, i) ==
    IF i > Len(s) THEN <<>>
    ELSE IF MatchesAt(s, i)
         THEN LET n == DigitRun(s, i + Len(ChapterLiteral))
              IN  <<SubSeq(s, i, i + Len(ChapterLiteral) + n - 1)>>
                      \o MatchAllFrom(s, i + Len(ChapterLiteral) + n)
         ELSE MatchAllFrom(s, i + 1)

\* s.match(/Chapter (\d+)/g): JavaScript answers null where this is <<>>
MatchGlobal(s) == MatchAllFrom(s, 1)

\* match.match(/Chapter (\d+)/)[1] on a string known to match: the first
\* digit run that follows the literal
RECURSIVE FirstCaptureFrom(_, _)
FirstCaptureFrom(s, i) ==
    IF i > Len(s) THEN undefined
    ELSE IF MatchesAt(s, i)
         THEN Str(SubSeq(s, i + Len(ChapterLiteral),
                         i + Len(ChapterLiteral)
                           + DigitRun(s, i + Len(ChapterLiteral)) - 1))
         ELSE FirstCaptureFrom(s, i + 1)

\* s.match(/Chapter (\d+)/)?.[1]: undefined when nothing matches
FirstCapture(s) == FirstCaptureFrom(s, 1)

\* array.forEach(...) that accumulates into acc: op(acc, element), in order
RECURSIVE ForEach(_, _, _)
ForEach(op(_, _), acc, array) ==
    IF array = <<>> THEN acc
    ELSE ForEach(op, op(acc, Head(array)), Tail(array))

\* the set of the elements of an array
Elements(array) == {array[i] : i \in DOMAIN array}

(***************************************************************************)
(* The two documents the application loads. A curriculum document is       *)
(* { distributedSystemsCurriculum: [ { chapterNumber, chapterTitle,        *)
(* content: [label, ...] }, ... ] }, a question document is { questions:   *)
(* [ { id, type, refer, knowledge_points }, ... ] }; type, refer,          *)
(* knowledge_points and content are optional. Only the properties the      *)
(* aggregations read are kept.                                             *)
(***************************************************************************)
\* a knowledge_points value that is an array
Array(items) == [array |-> items]

\* Array.isArray(v)
IsArray(v) == "array" \in DOMAIN v

\* q.f is a truthy string: present and not ''
TruthyString(q, f) == Has(q, f) /\ q[f] # <<>>

\* q.type as a JavaScript value
TypeValue(q) == IF Has(q, "type") THEN Str(q.type) ELSE undefined

CurriculumDocuments ==
    { [distributedSystemsCurriculum |-> <<
         [chapterNumber |-> <<"1">>, chapterTitle |-> <<"I", "n", "t", "r", "o">>,
          content |-> << <<"R", "P", "C">>, <<"P", "a", "x", "o", "s">> >>],
         [chapterNumber |-> <<"1", "0">>, chapterTitle |-> <<"A", "g", "r", "e", "e", "m", "e", "n", "t">>,
          content |-> << <<"T", "w", "o", "-", "P", "h", "a", "s", "e", " ", "C", "o", "m", "m", "i", "t">>, <<"P", "a", "x", "o", "s">>, <<"-", "-">> >>],
         [chapterNumber |-> <<"3">>, chapterTitle |-> <<"R", "e", "v", "i", "e", "w">>,
          content |-> << >>] >>],
      [distributedSystemsCurriculum |-> <<
         [chapterNumber |-> <<"1">>, chapterTitle |-> <<"I", "n", "t", "r", "o">>],
         [chapterNumber |-> <<"2">>, chapterTitle |-> <<"A", "g", "r", "e", "e", "m", "e", "n", "t">>,
          content |-> << <<"P", "a", "x", "o", "s">> >>] >>],
      [distributedSystemsCurriculum |-> << >>] }

QuestionUniverse ==
    { [id |-> 1, type |-> <<"M", "u", "l", "t", "i", "p", "l", "e", " ", "C", "h", "o", "i", "c", "e">>, refer |-> <<"C", "h", "a", "p", "t", "e", "r", " ", "1">>,
       knowledge_points |-> Array(<< <<"R", "P", "C">> >>)],
      [id |-> 2, type |-> <<"E", "s", "s", "a", "y", " ", "Q", "u", "e", "s", "t", "i", "o", "n">>, refer |-> <<"C", "h", "a", "p", "t", "e", "r", " ", "1", ",", " ", "C", "h", "a", "p", "t", "e", "r", " ", "2">>,
       knowledge_points |-> Array(<< <<"P", "a", "x", "o", "s", "!">>, <<"C", "o", "m", "m", "i", "t">> >>)],
      [id |-> 3, refer |-> <<"C", "h", "a", "p", "t", "e", "r", " ", "3", " ", "a", "n", "d", " ", "C", "h", "a", "p", "t", "e", "r", " ", "3", " ", "a", "g", "a", "i", "n">>],
      [id |-> 4, type |-> <<"P", "r", "o", "g", "r", "a", "m", "m", "i", "n", "g">>, refer |-> <<"C", "h", "a", "p", "t", "e", "r", " ", "1", "0">>,
       knowledge_points |-> Str(<<"P", "a", "x", "o", "s">>)],
      [id |-> 5, type |-> <<"S", "h", "o", "r", "t", " ", "E", "s", "s", "a", "y">>,
       knowledge_points |-> Array(<< <<"M", "u", "l", "t", "i", "-", "P", "a", "x", "o", "s">> >>)],
      [id |-> 6, type |-> <<"C", "a", "l", "c", "u", "l", "a", "t", "i", "o", "n">>, refer |-> <<"L", "e", "c", "t", "u", "r", "e", " ", "2">>,
       knowledge_points |-> Array(<< <<"t", "w", "o", " ", "p", "h", "a", "s", "e", " ", "c", "o", "m", "m", "i", "t">>, <<"R", "P", "C">>, <<"R", "P", "C">> >>)],
      [id |-> 7, type |-> <<"T", "r", "u", "e", "/", "F", "a", "l", "s", "e">>, refer |-> <<>>,
       knowledge_points |-> Array(<< <<"!", "!">> >>)],
      [id |-> 8, type |-> <<"U", "n", "k", "n", "o", "w", "n">>, refer |-> <<"C", "h", "a", "p", "t", "e", "r", " ", "2">>,
       knowledge_points |-> Array(<< >>)],
      [id |-> 9, type |-> <<>>, refer |-> <<"C", "h", "a", "p", "t", "e", "r", " ", "2">>] }

\* every question collection of at most MaxQuestions questions
QuestionDocuments ==
    { [questions |-> qs] :
        qs \in UNION { [1..n -> QuestionUniverse] : n \in 0..MaxQuestions } }

(***************************************************************************)
(* Statistics                                                              *)
(***************************************************************************)
\* the chapter numbers one refer cites, one per match of the expression, in
\* order and with repetitions: chapterMatches.forEach(match =>
\* match.match(/Chapter (\d+)/)[1])
ChapterNumbers(refer) ==
    LET chapterMatches == MatchGlobal(refer)
    IN  [i \in DOMAIN chapterMatches |-> FirstCapture(chapterMatches[i]).string]

\* the chapter numbers a question cites; none when refer is absent or ''
CitedChapters(q) ==
    IF TruthyString(q, "refer") THEN ChapterNumbers(q.refer) ELSE <<>>

\* new Set(questions.map(q => q.type)).size
UniqueTypes(questions) ==
    Cardinality({TypeValue(questions[i]) : i \in DOMAIN questions})

\* allKnowledgePoints.size
UniqueKnowledgePoints(questions) ==
    LET add(allKnowledgePoints, q) ==
            IF Has(q, "knowledge_points") /\ IsArray(q.knowledge_points)
            THEN allKnowledgePoints \cup Elements(q.knowledge_points.array)
            ELSE allKnowledgePoints
    IN  Cardinality(ForEach(add, {}, questions))

\* chapters.size
\* the chapters counted once per citation instead of collected into a Set
ChaptersCoveredPerCitation(questions) ==
    LET add(count, q) == count + Len(CitedChapters(q))
    IN  ForEach(add, 0, questions)

ChaptersCovered(questions) ==
    LET add(chapters, q) == chapters \cup Elements(CitedChapters(q))
    IN  Cardinality(ForEach(add, {}, questions))

\* the stats array: four { number, label } entries
StatsArray(totalQuestions, uniqueTypes, uniqueKnowledgePoints, chaptersCovered) ==
    << [number |-> totalQuestions, label |-> "totalQuestions"],
       [number |-> uniqueTypes, label |-> "uniqueTypes"],
       [number |-> uniqueKnowledgePoints, label |-> "uniqueKnowledgePoints"],
       [number |-> chaptersCovered, label |-> "chaptersCovered"] >>

\* website generateStatsLocally, docs generateStats: the four summary numbers
generateStatsLocally(questions) ==
    StatsArray(Len(questions), UniqueTypes(questions),
               UniqueKnowledgePoints(questions), ChaptersCovered(questions))

(***************************************************************************)
(* Timeline                                                                *)
(***************************************************************************)
\* IsRelated with the containment tested in one direction only
IsRelatedOneWay(content, question) ==
    IF ~Has(question, "knowledge_points") \/ ~IsArray(question.knowledge_points)
    THEN FALSE
    ELSE \E i \in DOMAIN question.knowledge_points.array :
            includes(normalizeText(content),
                     normalizeText(question.knowledge_points.array[i]))

\* the filter callback of createTimeline: question is related to content
\* IsRelated with a guard that lets an empty normalized text match nothing
IsRelatedNonEmpty(content, question) ==
    IF ~Has(question, "knowledge_points") \/ ~IsArray(question.knowledge_points)
    THEN FALSE
    ELSE \E i \in DOMAIN question.knowledge_points.array :
            LET kp == question.knowledge_points.array[i]
            IN  /\ normalizeText(content) # <<>>
                /\ normalizeText(kp) # <<>>
                /\ \/ includes(normalizeText(content), normalizeText(kp))
                   \/ includes(normalizeText(kp), normalizeText(content))

IsRelated(content, question) ==
    IF ~Has(question, "knowledge_points") \/ ~IsArray(question.knowledge_points)
    THEN FALSE
    ELSE \E i \in DOMAIN question.knowledge_points.array :
            LET kp == question.knowledge_points.array[i]
            IN  \/ includes(normalizeText(content), normalizeText(kp))
                \/ includes(normalizeText(kp), normalizeText(content))

\* questions.filter(...) for one content item
RelatedQuestions(content, questions) ==
    SelectSeq(questions, LAMBDA question : IsRelated(content, question))

\* the items of one chapter, a content item without related questions being
\* left out
ChapterItemsWithQuestions(chapter, questions) ==
    IF Has(chapter, "content") /\ Len(chapter.content) > 0
    THEN LET items == [contentIndex \in DOMAIN chapter.content |->
                         LET content == chapter.content[contentIndex]
                             relatedQuestions == RelatedQuestions(content, questions)
                         IN  [chapter |-> chapter.chapterNumber,
                              chapterTitle |-> chapter.chapterTitle,
                              content |-> content,
                              questions |-> relatedQuestions,
                              questionCount |-> Len(relatedQuestions)]]
         IN  SelectSeq(items, LAMBDA item : item.questionCount > 0)
    ELSE <<>>

\* the items one chapter pushes on timelineData
ChapterItems(chapter, questions) ==
    IF Has(chapter, "content") /\ Len(chapter.content) > 0
    THEN [contentIndex \in DOMAIN chapter.content |->
            LET content == chapter.content[contentIndex]
                relatedQuestions == RelatedQuestions(content, questions)
            IN  [chapter |-> chapter.chapterNumber,
                 chapterTitle |-> chapter.chapterTitle,
                 content |-> content,
                 questions |-> relatedQuestions,
                 questionCount |-> Len(relatedQuestions)]]
    ELSE <<>>

\* createTimeline: timelineData, in curriculum order
createTimeline(chapters, questions) ==
    LET push(timelineData, chapter) ==
            timelineData \o ChapterItems(chapter, questions)
    IN  ForEach(push, <<>>, chapters)

(***************************************************************************)
(* Charts computed locally                                                 *)
(***************************************************************************)
Unknown == <<"U", "n", "k", "n", "o", "w", "n">>

\* the property name undefined becomes when it is used as a key
UndefinedKey == <<"u", "n", "d", "e", "f", "i", "n", "e", "d">>

\* typeCounts by a loop that starts at index 1 and so skips the first
\* question: for (let i = 1; i < questions.length; i++)
createQuestionTypesChartFromSecond(questions) ==
    LET count(typeCounts, question) ==
            Increment(typeCounts,
                      IF TruthyString(question, "type") THEN question.type
                      ELSE Unknown)
    IN  ForEach(count, EmptyObject,
                IF questions = <<>> THEN <<>> ELSE Tail(questions))

\* typeCounts without the 'Unknown' default: a question without a type is
\* skipped
createQuestionTypesChartTypedOnly(questions) ==
    LET count(typeCounts, question) ==
            IF TruthyString(question, "type")
            THEN Increment(typeCounts, question.type)
            ELSE typeCounts
    IN  ForEach(count, EmptyObject, questions)

\* createQuestionTypesChartLocally: typeCounts
createQuestionTypesChartLocally(questions) ==
    LET count(typeCounts, question) ==
            Increment(typeCounts,
                      IF TruthyString(question, "type") THEN question.type
                      ELSE Unknown)
    IN  ForEach(count, EmptyObject, questions)

\* the chapter key without the 'Unknown' default:
\* question.refer?.match(/Chapter (\d+)/)?.[1]
HeatmapChapterNoDefault(question) ==
    IF TruthyString(question, "refer")
    THEN LET capture == FirstCapture(question.refer)
         IN  IF capture = undefined THEN UndefinedKey ELSE capture.string
    ELSE UndefinedKey

\* the chapter key of a question in createKnowledgeHeatmapLocally:
\* question.refer ? question.refer.match(/Chapter (\d+)/)?.[1] : 'Unknown'
HeatmapChapter(question) ==
    IF TruthyString(question, "refer")
    THEN LET capture == FirstCapture(question.refer)
         IN  IF capture = undefined THEN UndefinedKey ELSE capture.string
    ELSE Unknown

\* createKnowledgeHeatmapLocally: knowledgePoints[kp][chapter] and chapters
createKnowledgeHeatmapLocally(questions) ==
    LET count(heatmap, question) ==
            LET chapter == HeatmapChapter(question)
                cell(h, kp) ==
                    [knowledgePoints |->
                        IF kp \in DOMAIN h.knowledgePoints
                        THEN [h.knowledgePoints EXCEPT
                                ![kp] = Increment(@, chapter)]
                        ELSE h.knowledgePoints @@ (kp :> (chapter :> 1)),
                     chapters |-> h.chapters \cup {chapter}]
            IN  IF Has(question, "knowledge_points")
                    /\ IsArray(question.knowledge_points)
                THEN ForEach(cell, heatmap, question.knowledge_points.array)
                ELSE heatmap
    IN  ForEach(count, [knowledgePoints |-> EmptyObject, chapters |-> {}],
                questions)

\* createChapterImportanceChartLocally: chapterCounts
createChapterImportanceChartLocally(questions) ==
    LET count(chapterCounts, question) ==
            ForEach(Increment, chapterCounts, CitedChapters(question))
    IN  ForEach(count, EmptyObject, questions)

\* Difficulty with the two tests in the other order
DifficultyHardFirst(question) ==
    LET type == IF Has(question, "type") THEN toLowerCase(question.type)
                ELSE <<>>
    IN  IF \/ includes(type, <<"e", "s", "s", "a", "y">>)
           \/ includes(type, <<"c", "a", "l", "c", "u", "l", "a", "t", "i", "o", "n">>)
        THEN "Hard"
        ELSE IF \/ includes(type, <<"s", "h", "o", "r", "t">>)
                \/ includes(type, <<"t", "r", "u", "e">>)
                \/ includes(type, <<"m", "u", "l", "t", "i", "p", "l", "e">>)
             THEN "Easy"
             ELSE "Medium"

\* the inference with the last branch taken only for a type that is not
\* empty, the initial 'Unknown' staying otherwise: else if (type)
DifficultyUnknownWithoutType(question) ==
    LET type == IF Has(question, "type") THEN toLowerCase(question.type)
                ELSE <<>>
    IN  IF \/ includes(type, <<"s", "h", "o", "r", "t">>)
           \/ includes(type, <<"t", "r", "u", "e">>)
           \/ includes(type, <<"m", "u", "l", "t", "i", "p", "l", "e">>)
        THEN "Easy"
        ELSE IF \/ includes(type, <<"e", "s", "s", "a", "y">>)
                \/ includes(type, <<"c", "a", "l", "c", "u", "l", "a", "t", "i", "o", "n">>)
             THEN "Hard"
             ELSE IF type # <<>> THEN "Medium" ELSE "Unknown"

\* the difficulty createDifficultyDistributionChart infers for a question
Difficulty(question) ==
    LET type == IF Has(question, "type") THEN toLowerCase(question.type)
                ELSE <<>>
    IN  IF \/ includes(type, <<"s", "h", "o", "r", "t">>)
           \/ includes(type, <<"t", "r", "u", "e">>)
           \/ includes(type, <<"m", "u", "l", "t", "i", "p", "l", "e">>)
        THEN "Easy"
        ELSE IF \/ includes(type, <<"e", "s", "s", "a", "y">>)
                \/ includes(type, <<"c", "a", "l", "c", "u", "l", "a", "t", "i", "o", "n">>)
             THEN "Hard"
             ELSE "Medium"

\* createDifficultyDistributionChart: difficultyLevels
createDifficultyDistributionChart(questions) ==
    LET count(difficultyLevels, question) ==
            [difficultyLevels EXCEPT ![Difficulty(question)] = @ + 1]
    IN  ForEach(count, [Easy |-> 0, Medium |-> 0, Hard |-> 0, Unknown |-> 0],
                questions)

(***************************************************************************)
(* The precomputed statistics the website asks the API for. The server is  *)
(* not part of the front-end sources; its numbers are the Statistics       *)
(* Facade of the specification: uniqueTypes counts the distinct type       *)
(* values that are present, the other three are as computed locally.       *)
(***************************************************************************)
PrecomputedStatistics(questions) ==
    [totalQuestions |-> Len(questions),
     uniqueTypes |->
        Cardinality({questions[i].type :
                        i \in {j \in DOMAIN questions : Has(questions[j], "type")}}),
     uniqueKnowledgePoints |-> UniqueKnowledgePoints(questions),
     chaptersCovered |-> ChaptersCovered(questions)]

(***************************************************************************)
(* docs/app.js: its own copies of the statistics and of the timeline, and  *)
(* the cards createVisualizations builds                                   *)
(***************************************************************************)
\* a copy of the statistics that has drifted from the other front end:
\* uniqueTypes leaves the questions without a type out
generateStatsDrifted(questions) ==
    StatsArray(Len(questions),
               Cardinality({questions[i].type :
                               i \in {j \in DOMAIN questions : Has(questions[j], "type")}}),
               UniqueKnowledgePoints(questions), ChaptersCovered(questions))

\* docs generateStats: the four summary numbers
generateStats(questions) ==
    LET totalQuestions == Len(questions)
        uniqueTypes == Cardinality({TypeValue(questions[i]) : i \in DOMAIN questions})
        addPoints(allKnowledgePoints, q) ==
            IF Has(q, "knowledge_points") /\ IsArray(q.knowledge_points)
            THEN ForEach(LAMBDA set, kp : set \cup {kp}, allKnowledgePoints,
                         q.knowledge_points.array)
            ELSE allKnowledgePoints
        addChapters(chapters, q) ==
            IF TruthyString(q, "refer")
            THEN ForEach(LAMBDA set, match : set \cup {FirstCapture(match).string},
                         chapters, MatchGlobal(q.refer))
            ELSE chapters
    IN  StatsArray(totalQuestions, uniqueTypes,
                   Cardinality(ForEach(addPoints, {}, questions)),
                   Cardinality(ForEach(addChapters, {}, questions)))

\* the filter docs/app.js applies to the questions of one content item (in
\* createTimeline, createImportanceAnalysis and createCompactHeatmap)
docsIsRelated(content, question) ==
    /\ Has(question, "knowledge_points")
    /\ IsArray(question.knowledge_points)
    /\ \E i \in DOMAIN question.knowledge_points.array :
          \/ includes(normalizeText(content),
                      normalizeText(question.knowledge_points.array[i]))
          \/ includes(normalizeText(question.knowledge_points.array[i]),
                      normalizeText(content))

\* docs createTimeline: timelineData
createTimelineDocs(chapters, questions) ==
    LET item(chapter, content) ==
            LET relatedQuestions ==
                    SelectSeq(questions, LAMBDA question : docsIsRelated(content, question))
            IN  [chapter |-> chapter.chapterNumber,
                 chapterTitle |-> chapter.chapterTitle,
                 content |-> content,
                 questions |-> relatedQuestions,
                 questionCount |-> Len(relatedQuestions)]
        push(timelineData, chapter) ==
            IF Has(chapter, "content") /\ Len(chapter.content) > 0
            THEN ForEach(LAMBDA data, content : Append(data, item(chapter, content)),
                         timelineData, chapter.content)
            ELSE timelineData
    IN  ForEach(push, <<>>, chapters)

\* createImportanceAnalysis: knowledgePointStats, an object keyed by the
\* content label; a label assigned twice keeps the later assignment
createImportanceAnalysis(chapters, questions) ==
    LET assign(knowledgePointStats, chapter, content) ==
            LET entry == [count |-> Cardinality({i \in DOMAIN questions :
                                                    docsIsRelated(content, questions[i])}),
                          chapter |-> chapter.chapterNumber,
                          chapterTitle |-> chapter.chapterTitle]
            IN  IF content \in DOMAIN knowledgePointStats
                THEN [knowledgePointStats EXCEPT ![content] = entry]
                ELSE knowledgePointStats @@ (content :> entry)
        visit(knowledgePointStats, chapter) ==
            ForEach(LAMBDA stats_, content : assign(stats_, chapter, content),
                    knowledgePointStats, chapter.content)
    IN  ForEach(visit, [k \in {} |-> 0], chapters)

\* createDifficultyDistribution: per chapter, questionCount (the questions
\* whose refer includes `Chapter ${chapter.chapterNumber}`) and knowledgePoints
createDifficultyDistribution(chapters, questions) ==
    [index \in DOMAIN chapters |->
        LET chapter == chapters[index]
        IN  [chapter |-> chapter.chapterNumber,
             questionCount |->
                Cardinality({i \in DOMAIN questions :
                    /\ TruthyString(questions[i], "refer")
                    /\ includes(questions[i].refer,
                                ChapterLiteral \o chapter.chapterNumber)}),
             knowledgePoints |-> Len(chapter.content)]]

\* the rows of createQuestionTypeMatrix
MatrixTypes ==
    { <<"E", "s", "s", "a", "y">>,
      <<"C", "a", "l", "c", "u", "l", "a", "t", "i", "o", "n">>,
      <<"F", "i", "l", "l", " ", "i", "n", " ", "B", "l", "a", "n", "k">>,
      <<"S", "h", "o", "r", "t", " ", "A", "n", "s", "w", "e", "r">>,
      <<"P", "r", "o", "g", "r", "a", "m", "m", "i", "n", "g">> }

\* the per-chapter test of createQuestionTypeMatrix: some match of
\* /Chapter (\d+)/g in q.refer captures exactly chapterNumber
CitesChapter(q, chapterNumber) ==
    /\ TruthyString(q, "refer")
    /\ \E i \in DOMAIN MatchGlobal(q.refer) :
          FirstCapture(MatchGlobal(q.refer)[i]).string = chapterNumber

\* createQuestionTypeMatrix: the count of every (type, chapter) cell
createQuestionTypeMatrix(chapters, questions) ==
    [type \in MatrixTypes |->
        [index \in DOMAIN chapters |->
            Cardinality({i \in DOMAIN questions :
                /\ Has(questions[i], "type")
                /\ questions[i].type = type
                /\ CitesChapter(questions[i], chapters[index].chapterNumber)})]]

(***************************************************************************)
(* State                                                                   *)
(***************************************************************************)
VARIABLES
    variant,          \* which front end runs: "website" or "docs"
    pc,               \* where initApp stands
    fetchState,       \* per endpoint: "idle", "pending", "response", "ok", "failed"
    response,         \* per endpoint: the body a successful request answered
    rejection,        \* website: the reason Promise.all rejected with, or NULL
    curriculumData,   \* the loaded curriculum document, or NULL
    questionsData,    \* the loaded question document, or NULL
    loading,          \* website: data().loading
    error,            \* website: data().error; docs: the error-message text
    display,          \* docs: style.display of the three panels
    stats,            \* website: data().stats; docs: the rendered stats
    timer,            \* the deferred chart creation: "none", "nextTick", "timeout", "fired"
    timelineData,     \* createTimeline's timelineData, or NULL
    chartSource,      \* website: per chart "none", "api" or "local"
    typeCounts,       \* createQuestionTypesChartLocally's typeCounts, or NULL
    knowledgeHeatmap, \* createKnowledgeHeatmapLocally's knowledgePoints and chapters, or NULL
    chapterCounts,    \* createChapterImportanceChartLocally's chapterCounts, or NULL
    difficultyLevels, \* createDifficultyDistributionChart's difficultyLevels, or NULL
    invoked,          \* the aggregation functions called so far
    knowledgePointStats,    \* docs: createImportanceAnalysis's knowledgePointStats, or NULL
    difficultyDistribution, \* docs: the metrics createDifficultyDistribution shows per chapter, or NULL
    typeMatrix,             \* docs: the cells of createQuestionTypeMatrix, or NULL
    text,             \* the argument of a normalizeText call
    normalized        \* what that call returned, or NULL before it returns

vars ==
    <<variant, pc, fetchState, response, rejection, curriculumData,
      questionsData, loading, error, display, stats, timer, timelineData,
      chartSource, typeCounts, knowledgeHeatmap, chapterCounts,
      difficultyLevels, invoked, knowledgePointStats, difficultyDistribution,
      typeMatrix, text, normalized>>

\* what the cards of the docs page show
cardVars == <<knowledgePointStats, difficultyDistribution, typeMatrix>>

\* the argument and the result of a normalizeText call
normalizeVars == <<text, normalized>>

\* the variables of the locally computed charts
chartVars == <<typeCounts, knowledgeHeatmap, chapterCounts>>

DataEndpoints == {"curriculum", "questions"}

ChartEndpoints == {"question-types", "knowledge-heatmap", "chapter-importance"}

Endpoints == DataEndpoints \cup {"statistics"} \cup ChartEndpoints

\* the ways a request fails: fetch rejects, the response is not ok, the body
\* does not parse
FailureKinds == {"network", "status", "json"}

\* error.message of a failed request
Message(kind, where) == [kind |-> kind, where |-> where]

\* the page before initApp runs
PageInit ==
    /\ variant \in {"website", "docs"}
    /\ pc = "start"
    /\ fetchState = [e \in Endpoints |-> "idle"]
    /\ response = [e \in DataEndpoints |-> NULL]
    /\ rejection = NULL
    /\ curriculumData = NULL
    /\ questionsData = NULL
    /\ loading = TRUE
    /\ error = NULL
    /\ display = [loading |-> "", error |-> "", main |-> ""]
    /\ stats = <<>>
    /\ timer = "none"
    /\ timelineData = NULL
    /\ chartSource = [e \in ChartEndpoints |-> "none"]
    /\ typeCounts = NULL
    /\ knowledgeHeatmap = NULL
    /\ chapterCounts = NULL
    /\ difficultyLevels = NULL
    /\ invoked = {}
    /\ knowledgePointStats = NULL
    /\ difficultyDistribution = NULL
    /\ typeMatrix = NULL

Init ==
    /\ PageInit
    /\ text = <<>>
    /\ normalized = NULL

\* the documents a server may answer a data request with
Documents(endpoint) ==
    IF endpoint = "curriculum" THEN CurriculumDocuments ELSE QuestionDocuments

(***************************************************************************)
(* website/app.js                                                          *)
(***************************************************************************)
\* Promise.all replaced by a combinator that is fulfilled by the first answer
PromiseAnyFulfilled == \E e \in DataEndpoints : fetchState[e] = "ok"

\* Promise.all of the two fetchData calls is fulfilled
PromiseAllFulfilled == \A e \in DataEndpoints : fetchState[e] = "ok"

\* mounted(): initApp runs up to its await; both fetchData calls are started
mounted ==
    /\ variant = "website"
    /\ pc = "start"
    /\ pc' = "awaitAll"
    /\ fetchState' = [e \in Endpoints |->
                        IF e \in DataEndpoints THEN "pending" ELSE fetchState[e]]
    /\ UNCHANGED <<normalizeVars, cardVars, variant, response, rejection, curriculumData, questionsData,
                   loading, error, display, stats, timer, timelineData,
                   chartSource, chartVars, difficultyLevels, invoked>>

\* fetchData(endpoint) of initApp returns the parsed body (its two awaits,
\* fetch and response.json(), change nothing in between and are one step)
fetchDataReturns(endpoint) ==
    /\ variant = "website"
    /\ fetchState[endpoint] = "pending"
    /\ \E document \in Documents(endpoint) :
          response' = [response EXCEPT ![endpoint] = document]
    /\ fetchState' = [fetchState EXCEPT ![endpoint] = "ok"]
    /\ UNCHANGED <<normalizeVars, cardVars, variant, pc, rejection, curriculumData, questionsData,
                   loading, error, display, stats, timer, timelineData,
                   chartSource, chartVars, difficultyLevels, invoked>>

\* fetchData(endpoint) of initApp throws; the first rejection settles
\* Promise.all
fetchDataThrows(endpoint) ==
    /\ variant = "website"
    /\ fetchState[endpoint] = "pending"
    /\ fetchState' = [fetchState EXCEPT ![endpoint] = "failed"]
    /\ \E kind \in FailureKinds :
          rejection' = IF rejection = NULL THEN Message(kind, endpoint)
                       ELSE rejection
    /\ UNCHANGED <<normalizeVars, cardVars, variant, pc, response, curriculumData, questionsData,
                   loading, error, display, stats, timer, timelineData,
                   chartSource, chartVars, difficultyLevels, invoked>>

\* initApp after the await, both requests answered: publishes the two
\* documents, calls generateStats (which runs up to its own await of
\* fetchData('/api/statistics')), registers $nextTick, clears loading
initAppContinue ==
    /\ variant = "website"
    /\ pc = "awaitAll"
    /\ PromiseAllFulfilled
    /\ curriculumData' = response["curriculum"]
    /\ questionsData' = response["questions"]
    /\ fetchState' = [fetchState EXCEPT !["statistics"] = "pending"]
    /\ invoked' = invoked \cup {"generateStats"}
    /\ timer' = "nextTick"
    /\ loading' = FALSE
    /\ pc' = "done"
    /\ UNCHANGED <<normalizeVars, cardVars, variant, response, rejection, error, display, stats,
                   timelineData, chartSource, chartVars, difficultyLevels>>

\* initApp's catch without the assignment to error
initAppCatchSilent ==
    /\ variant = "website"
    /\ pc = "awaitAll"
    /\ rejection # NULL
    /\ loading' = FALSE
    /\ pc' = "done"
    /\ UNCHANGED <<normalizeVars, cardVars, variant, fetchState, response, rejection, curriculumData,
                   questionsData, error, display, stats, timer, timelineData,
                   chartSource, chartVars, difficultyLevels, invoked>>

\* initApp's catch without its last line: the error is set, the loading
\* flag stays
initAppCatchStillLoading ==
    /\ variant = "website"
    /\ pc = "awaitAll"
    /\ rejection # NULL
    /\ error' = rejection
    /\ pc' = "done"
    /\ UNCHANGED <<normalizeVars, cardVars, variant, fetchState, response, rejection, curriculumData,
                   questionsData, loading, display, stats, timer, timelineData,
                   chartSource, chartVars, difficultyLevels, invoked>>

\* initApp's catch
initAppCatch ==
    /\ variant = "website"
    /\ pc = "awaitAll"
    /\ rejection # NULL
    /\ error' = rejection
    /\ loading' = FALSE
    /\ pc' = "done"
    /\ UNCHANGED <<normalizeVars, cardVars, variant, fetchState, response, rejection, curriculumData,
                   questionsData, display, stats, timer, timelineData,
                   chartSource, chartVars, difficultyLevels, invoked>>

\* generateStats after its await, the request answered: the four numbers
\* of statsResponse.data
generateStatsFromApi ==
    /\ variant = "website"
    /\ fetchState["statistics"] = "pending"
    /\ fetchState' = [fetchState EXCEPT !["statistics"] = "ok"]
    /\ LET statsData == PrecomputedStatistics(response["questions"].questions)
       IN  stats' = StatsArray(statsData.totalQuestions, statsData.uniqueTypes,
                               statsData.uniqueKnowledgePoints,
                               statsData.chaptersCovered)
    /\ UNCHANGED <<normalizeVars, cardVars, variant, pc, response, rejection, curriculumData,
                   questionsData, loading, error, display, timer,
                   timelineData, chartSource, chartVars, difficultyLevels,
                   invoked>>

\* generateStats' catch that only logs
generateStatsFallbackLogsOnly ==
    /\ variant = "website"
    /\ fetchState["statistics"] = "pending"
    /\ fetchState' = [fetchState EXCEPT !["statistics"] = "failed"]
    /\ UNCHANGED <<normalizeVars, cardVars, variant, pc, response, rejection, curriculumData,
                   questionsData, loading, error, display, stats, timer,
                   timelineData, chartSource, chartVars, difficultyLevels,
                   invoked>>

\* generateStats' catch: generateStatsLocally
generateStatsFallback ==
    /\ variant = "website"
    /\ fetchState["statistics"] = "pending"
    /\ fetchState' = [fetchState EXCEPT !["statistics"] = "failed"]
    /\ stats' = generateStatsLocally(questionsData.questions)
    /\ invoked' = invoked \cup {"generateStatsLocally"}
    /\ UNCHANGED <<normalizeVars, cardVars, variant, pc, response, rejection, curriculumData,
                   questionsData, loading, error, display, timer,
                   timelineData, chartSource, chartVars, difficultyLevels>>

\* the $nextTick callback: setTimeout(..., 100)
nextTick ==
    /\ variant = "website"
    /\ timer = "nextTick"
    /\ timer' = "timeout"
    /\ UNCHANGED <<normalizeVars, cardVars, variant, pc, fetchState, response, rejection,
                   curriculumData, questionsData, loading, error, display,
                   stats, timelineData, chartSource, chartVars,
                   difficultyLevels, invoked>>

\* the callback with an aggregation that reorders the questions it reads in
\* place: questions.reverse()
createChartsReversingInPlace ==
    /\ variant = "website"
    /\ timer = "timeout"
    /\ timer' = "fired"
    /\ timelineData' =
          Computed(createTimeline(curriculumData.distributedSystemsCurriculum,
                                  questionsData.questions))
    /\ fetchState' = [e \in Endpoints |->
                        IF e \in ChartEndpoints THEN "pending" ELSE fetchState[e]]
    /\ difficultyLevels' =
          Computed(createDifficultyDistributionChart(questionsData.questions))
    /\ questionsData' =
          [questions |->
              [i \in DOMAIN questionsData.questions |->
                  questionsData.questions[Len(questionsData.questions) + 1 - i]]]
    /\ invoked' = invoked \cup
          {"createTimeline", "createQuestionTypesChart", "createKnowledgeHeatmap",
           "createChapterImportanceChart", "createDifficultyDistributionChart"}
    /\ UNCHANGED <<normalizeVars, cardVars, variant, pc, response, rejection, curriculumData,
                   loading, error, display, stats, chartSource,
                   chartVars>>

\* the setTimeout callback: createTimeline, the three charts that ask the
\* API first (each runs up to its await), createDifficultyDistributionChart
createCharts ==
    /\ variant = "website"
    /\ timer = "timeout"
    /\ timer' = "fired"
    /\ timelineData' =
          Computed(createTimeline(curriculumData.distributedSystemsCurriculum,
                                  questionsData.questions))
    /\ fetchState' = [e \in Endpoints |->
                        IF e \in ChartEndpoints THEN "pending" ELSE fetchState[e]]
    /\ difficultyLevels' =
          Computed(createDifficultyDistributionChart(questionsData.questions))
    /\ invoked' = invoked \cup
          {"createTimeline", "createQuestionTypesChart", "createKnowledgeHeatmap",
           "createChapterImportanceChart", "createDifficultyDistributionChart"}
    /\ UNCHANGED <<normalizeVars, cardVars, variant, pc, response, rejection, curriculumData,
                   questionsData, loading, error, display, stats, chartSource,
                   chartVars>>

\* a chart function after its await, the request answered: the chart is
\* drawn from response.data
chartFromApi(endpoint) ==
    /\ variant = "website"
    /\ fetchState[endpoint] = "pending"
    /\ fetchState' = [fetchState EXCEPT ![endpoint] = "ok"]
    /\ chartSource' = [chartSource EXCEPT ![endpoint] = "api"]
    /\ UNCHANGED <<normalizeVars, cardVars, variant, pc, response, rejection, curriculumData,
                   questionsData, loading, error, display, stats, timer,
                   timelineData, chartVars, difficultyLevels, invoked>>

\* createQuestionTypesChart's catch: createQuestionTypesChartLocally
createQuestionTypesChartFallback ==
    /\ variant = "website"
    /\ fetchState["question-types"] = "pending"
    /\ fetchState' = [fetchState EXCEPT !["question-types"] = "failed"]
    /\ chartSource' = [chartSource EXCEPT !["question-types"] = "local"]
    /\ typeCounts' =
          Computed(createQuestionTypesChartLocally(questionsData.questions))
    /\ invoked' = invoked \cup {"createQuestionTypesChartLocally"}
    /\ UNCHANGED <<normalizeVars, cardVars, variant, pc, response, rejection, curriculumData,
                   questionsData, loading, error, display, stats, timer,
                   timelineData, knowledgeHeatmap, chapterCounts,
                   difficultyLevels>>

\* createKnowledgeHeatmap's catch: createKnowledgeHeatmapLocally
createKnowledgeHeatmapFallback ==
    /\ variant = "website"
    /\ fetchState["knowledge-heatmap"] = "pending"
    /\ fetchState' = [fetchState EXCEPT !["knowledge-heatmap"] = "failed"]
    /\ chartSource' = [chartSource EXCEPT !["knowledge-heatmap"] = "local"]
    /\ knowledgeHeatmap' =
          Computed(createKnowledgeHeatmapLocally(questionsData.questions))
    /\ invoked' = invoked \cup {"createKnowledgeHeatmapLocally"}
    /\ UNCHANGED <<normalizeVars, cardVars, variant, pc, response, rejection, curriculumData,
                   questionsData, loading, error, display, stats, timer,
                   timelineData, typeCounts, chapterCounts, difficultyLevels>>

\* createChapterImportanceChart's catch: createChapterImportanceChartLocally
createChapterImportanceChartFallback ==
    /\ variant = "website"
    /\ fetchState["chapter-importance"] = "pending"
    /\ fetchState' = [fetchState EXCEPT !["chapter-importance"] = "failed"]
    /\ chartSource' = [chartSource EXCEPT !["chapter-importance"] = "local"]
    /\ chapterCounts' =
          Computed(createChapterImportanceChartLocally(questionsData.questions))
    /\ invoked' = invoked \cup {"createChapterImportanceChartLocally"}
    /\ UNCHANGED <<normalizeVars, cardVars, variant, pc, response, rejection, curriculumData,
                   questionsData, loading, error, display, stats, timer,
                   timelineData, typeCounts, knowledgeHeatmap,
                   difficultyLevels>>

(***************************************************************************)
(* docs/app.js                                                             *)
(***************************************************************************)
\* showLoading()
showLoading == [loading |-> "block", error |-> "none", main |-> "none"]

\* showError with the last line copied from showMainContent: the main
\* content is shown next to the error
showErrorBesideMain == [loading |-> "none", error |-> "block", main |-> "block"]

\* showError(message): the panels
showError == [loading |-> "none", error |-> "block", main |-> "none"]

\* hideLoading(); showMainContent()
showMainContent == [loading |-> "none", error |-> "none", main |-> "block"]

\* createVisualizations throwing also when there is no chapter at all, as if
\* it read the first chapter before the loop
createVisualizationsThrowsOnEmpty(chapters) ==
    \/ chapters = <<>>
    \/ \E i \in DOMAIN chapters : ~Has(chapters[i], "content")

\* createVisualizations throws a TypeError: createCompactHeatmap calls
\* chapter.content.forEach on every chapter
createVisualizationsThrows(chapters) ==
    \E i \in DOMAIN chapters : ~Has(chapters[i], "content")

\* DOMContentLoaded: initApp runs up to its first await
docsInitApp ==
    /\ variant = "docs"
    /\ pc = "start"
    /\ display' = showLoading
    /\ fetchState' = [fetchState EXCEPT !["curriculum"] = "pending"]
    /\ pc' = "fetchCurriculum"
    /\ UNCHANGED <<normalizeVars, cardVars, variant, response, rejection, curriculumData, questionsData,
                   loading, error, stats, timer, timelineData, chartSource,
                   chartVars, difficultyLevels, invoked>>

\* initApp's catch, entered from the await of endpoint with error.message
docsCatch(endpoint, message) ==
    /\ fetchState' = [fetchState EXCEPT ![endpoint] = "failed"]
    /\ display' = showError
    /\ error' = message
    /\ pc' = "done"
    /\ UNCHANGED <<normalizeVars, cardVars, variant, response, rejection, curriculumData, questionsData,
                   loading, stats, timer, timelineData, chartSource, chartVars,
                   difficultyLevels, invoked>>

\* await fetch(...) of endpoint answers with an ok response
docsFetchResponds(endpoint) ==
    /\ variant = "docs"
    /\ fetchState[endpoint] = "pending"
    /\ fetchState' = [fetchState EXCEPT ![endpoint] = "response"]
    /\ UNCHANGED <<normalizeVars, cardVars, variant, pc, response, rejection, curriculumData,
                   questionsData, loading, error, display, stats, timer,
                   timelineData, chartSource, chartVars, difficultyLevels,
                   invoked>>

\* await fetch(...) of endpoint rejects, or answers a response that is not
\* ok and initApp throws
docsFetchFails(endpoint) ==
    /\ variant = "docs"
    /\ fetchState[endpoint] = "pending"
    /\ \E kind \in {"network", "status"} : docsCatch(endpoint, Message(kind, endpoint))

\* await response.json() of endpoint rejects
docsJsonFails(endpoint) ==
    /\ variant = "docs"
    /\ fetchState[endpoint] = "response"
    /\ docsCatch(endpoint, Message("json", endpoint))

\* curriculumData = await curriculumResponse.json(); initApp goes on to the
\* await of the question request
docsCurriculumLoaded ==
    /\ variant = "docs"
    /\ pc = "fetchCurriculum"
    /\ fetchState["curriculum"] = "response"
    /\ \E document \in CurriculumDocuments :
          /\ response' = [response EXCEPT !["curriculum"] = document]
          /\ curriculumData' = document
    /\ fetchState' = [fetchState EXCEPT !["curriculum"] = "ok",
                                        !["questions"] = "pending"]
    /\ pc' = "fetchQuestions"
    /\ UNCHANGED <<normalizeVars, cardVars, variant, rejection, questionsData, loading, error, display,
                   stats, timer, timelineData, chartSource, chartVars,
                   difficultyLevels, invoked>>

\* questionsData = await questionsResponse.json(); the rest of initApp:
\* generateStats, createVisualizations, setTimeout, hideLoading,
\* showMainContent; the catch when createVisualizations throws
docsQuestionsLoaded ==
    /\ variant = "docs"
    /\ pc = "fetchQuestions"
    /\ fetchState["questions"] = "response"
    /\ \E document \in QuestionDocuments :
          /\ response' = [response EXCEPT !["questions"] = document]
          /\ questionsData' = document
          /\ stats' = generateStats(document.questions)
    /\ fetchState' = [fetchState EXCEPT !["questions"] = "ok"]
    /\ invoked' = invoked \cup {"generateStats", "createVisualizations"}
    /\ IF createVisualizationsThrows(curriculumData.distributedSystemsCurriculum)
       THEN /\ display' = showError
            /\ error' = Message("TypeError", "createVisualizations")
            /\ timer' = timer
            /\ UNCHANGED cardVars
       ELSE /\ knowledgePointStats' =
                  Computed(createImportanceAnalysis(
                      curriculumData.distributedSystemsCurriculum,
                      questionsData'.questions))
            /\ difficultyDistribution' =
                  Computed(createDifficultyDistribution(
                      curriculumData.distributedSystemsCurriculum,
                      questionsData'.questions))
            /\ typeMatrix' =
                  Computed(createQuestionTypeMatrix(
                      curriculumData.distributedSystemsCurriculum,
                      questionsData'.questions))
            /\ display' = showMainContent
            /\ error' = error
            /\ timer' = "timeout"
    /\ pc' = "done"
    /\ UNCHANGED <<normalizeVars, variant, rejection, curriculumData, loading, timelineData,
                   chartSource, chartVars, difficultyLevels>>

\* the setTimeout callback: createTimeline
docsCreateTimeline ==
    /\ variant = "docs"
    /\ timer = "timeout"
    /\ timer' = "fired"
    /\ timelineData' =
          Computed(createTimelineDocs(curriculumData.distributedSystemsCurriculum,
                                  questionsData.questions))
    /\ invoked' = invoked \cup {"createTimeline"}
    /\ UNCHANGED <<normalizeVars, cardVars, variant, pc, fetchState, response, rejection,
                   curriculumData, questionsData, loading, error, display,
                   stats, chartSource, chartVars, difficultyLevels>>

(***************************************************************************)
(* Specification                                                           *)
(***************************************************************************)
Next ==
    \/ mounted
    \/ \E endpoint \in DataEndpoints : fetchDataReturns(endpoint)
    \/ \E endpoint \in DataEndpoints : fetchDataThrows(endpoint)
    \/ initAppContinue
    \/ initAppCatch
    \/ generateStatsFromApi
    \/ generateStatsFallback
    \/ nextTick
    \/ createCharts
    \/ \E endpoint \in ChartEndpoints : chartFromApi(endpoint)
    \/ createQuestionTypesChartFallback
    \/ createKnowledgeHeatmapFallback
    \/ createChapterImportanceChartFallback
    \/ docsInitApp
    \/ \E endpoint \in DataEndpoints : docsFetchResponds(endpoint)
    \/ \E endpoint \in DataEndpoints : docsFetchFails(endpoint)
    \/ \E endpoint \in DataEndpoints : docsJsonFails(endpoint)
    \/ docsCurriculumLoaded
    \/ docsQuestionsLoaded
    \/ docsCreateTimeline

Spec == Init /\ [][Next]_vars

\* a step of initApp up to the end of its try or catch: the page starts it
\* (mounted, DOMContentLoaded), the browser settles a pending fetch or json()
\* promise, or the continuation after an await runs
LoadStep ==
    \/ mounted
    \/ \E endpoint \in DataEndpoints : fetchDataReturns(endpoint)
    \/ \E endpoint \in DataEndpoints : fetchDataThrows(endpoint)
    \/ initAppContinue
    \/ initAppCatch
    \/ docsInitApp
    \/ \E endpoint \in DataEndpoints : docsFetchResponds(endpoint)
    \/ \E endpoint \in DataEndpoints : docsFetchFails(endpoint)
    \/ \E endpoint \in DataEndpoints : docsJsonFails(endpoint)
    \/ docsCurriculumLoaded
    \/ docsQuestionsLoaded

\* every fetch eventually resolves or rejects, and the event loop runs the
\* continuation of a settled await: initApp is not left waiting for ever
FairSpec == Spec /\ WF_vars(LoadStep)

(***************************************************************************)
(* normalizeText on its own: a call with any text of at most MaxTextLen    *)
(* characters, or with the label " Two-Phase Commit! "                     *)
(***************************************************************************)
MaxTextLen == 3

\* an upper-case and a lower-case letter, a digit, the underscore, two
\* whitespace characters and two punctuation characters
TextAlphabet == {"A", "b", "7", "_", " ", "\t", "-", "!"}

PaddedLabel ==
    <<" ", "T", "w", "o", "-", "P", "h", "a", "s", "e", " ", "C", "o", "m", "m", "i", "t", "!", " ">>

Texts ==
    {PaddedLabel} \cup UNION { [1..n -> TextAlphabet] : n \in 0..MaxTextLen }

NormalizeInit ==
    /\ PageInit
    /\ text \in Texts
    /\ normalized = NULL

\* normalizeText(text) returns
normalizeTextReturns ==
    /\ normalized = NULL
    /\ normalized' = Computed(normalizeText(text))
    /\ UNCHANGED <<text, cardVars, variant, pc, fetchState, response, rejection,
                   curriculumData, questionsData, loading, error, display,
                   stats, timer, timelineData, chartSource, chartVars,
                   difficultyLevels, invoked>>

NormalizeNext == normalizeTextReturns

NormalizeSpec == NormalizeInit /\ [][NormalizeNext]_vars

(***************************************************************************)
(* Properties                                                              *)
(***************************************************************************)
\* t occurs in s at some offset (stated on positions, not through SubSeq)
Contains(s, t) ==
    \E offset \in 0..(Len(s) - Len(t)) :
        \A j \in 1..Len(t) : s[offset + j] = t[j]

\* the number of indices of a sequence that satisfy a test
CountIndices(array, Test(_)) == Cardinality({i \in DOMAIN array : Test(array[i])})

\* the sum of the values of f over the indices 1..n
RECURSIVE SumTo(_, _)
SumTo(f(_), n) == IF n = 0 THEN 0 ELSE f(n) + SumTo(f, n - 1)

\* the questions the aggregations read
LoadedQuestions == questionsData.questions

\* the chapters the aggregations read
LoadedChapters == curriculumData.distributedSystemsCurriculum

\* C1's relation: knowledge_points is an array and some kp of it contains,
\* or is contained in, the content label, both normalized
RelatedAsClaimed(c, q) ==
    /\ Has(q, "knowledge_points")
    /\ IsArray(q.knowledge_points)
    /\ \E kp \in Elements(q.knowledge_points.array) :
          \/ Contains(normalizeText(c), normalizeText(kp))
          \/ Contains(normalizeText(kp), normalizeText(c))

\* C1: once the timeline is built, every content label of the curriculum has
\* its timeline item, and a question is in the related-question set of an
\* item exactly when its knowledge_points is an array and some kp of it
\* contains, or is contained in, the item's content label after normalization;
\* a question without an array of knowledge points is in no set.
C1_RelatedIffContainment ==
    timelineData # NULL =>
        /\ \A i \in DOMAIN LoadedChapters :
              Has(LoadedChapters[i], "content") =>
                 \A c \in Elements(LoadedChapters[i].content) :
                    \E k \in DOMAIN timelineData.value : timelineData.value[k].content = c
        /\ \A k \in DOMAIN timelineData.value :
              \A q \in Elements(LoadedQuestions) :
                 q \in Elements(timelineData.value[k].questions)
                    <=> RelatedAsClaimed(timelineData.value[k].content, q)

\* C1 witness: a timeline item for "Paxos" whose related set holds the
\* question tagged "Multi-Paxos" (the kp contains the label) and leaves out a
\* loaded question whose knowledge_points is a string, not an array
C1_Witness ==
    /\ timelineData # NULL
    /\ \E k \in DOMAIN timelineData.value :
          /\ timelineData.value[k].content = <<"P", "a", "x", "o", "s">>
          /\ \E q \in Elements(timelineData.value[k].questions) : q.id = 5
          /\ \E q \in Elements(LoadedQuestions) :
                /\ Has(q, "knowledge_points")
                /\ ~IsArray(q.knowledge_points)
                /\ q \notin Elements(timelineData.value[k].questions)

\* the occurrences of "Chapter N" in a question's refer, as chapter numbers
ReferChapters(q) == IF Has(q, "refer") THEN ChapterNumbers(q.refer) ELSE <<>>

\* C2: after createChapterImportanceChartLocally, the counter of every chapter
\* equals the number of questions whose refer cites that chapter at least
\* once (a question citing a chapter twice counts once).
C2_ChapterCountsPerQuestion ==
    chapterCounts # NULL =>
        \A c \in DOMAIN chapterCounts.value
                 \cup UNION {Elements(ReferChapters(q)) : q \in Elements(LoadedQuestions)} :
            CountAt(chapterCounts.value, c)
                = CountIndices(LoadedQuestions,
                               LAMBDA q : c \in Elements(ReferChapters(q)))

\* the number of (i, j) with K[i] = kp and R[j] = c, K the knowledge points
\* and R the chapter references of q
PairCount(q, kp, c) ==
    IF Has(q, "knowledge_points") /\ IsArray(q.knowledge_points)
    THEN Cardinality({p \in (DOMAIN q.knowledge_points.array) \X (DOMAIN ReferChapters(q)) :
                         /\ q.knowledge_points.array[p[1]] = kp
                         /\ ReferChapters(q)[p[2]] = c})
    ELSE 0

\* C3: after createKnowledgeHeatmapLocally, for every knowledge point kp and
\* every chapter c some question refers to, the cell (kp, c) holds one
\* increment per pair of K x R of every question.
C3_HeatmapCrossProduct ==
    knowledgeHeatmap # NULL =>
        \A q \in Elements(LoadedQuestions) :
            Has(q, "knowledge_points") /\ IsArray(q.knowledge_points) =>
                \A kp \in Elements(q.knowledge_points.array) :
                    \A c \in Elements(ReferChapters(q)) :
                        /\ kp \in DOMAIN knowledgeHeatmap.value.knowledgePoints
                        /\ CountAt(knowledgeHeatmap.value.knowledgePoints[kp], c)
                             = SumTo(LAMBDA i : PairCount(LoadedQuestions[i], kp, c),
                                     Len(LoadedQuestions))

\* C4: whenever an aggregation function has been called, both requests have
\* been answered successfully and both documents are set.
C4_AggregationAfterBothLoads ==
    invoked # {} =>
        /\ \A e \in DataEndpoints : fetchState[e] = "ok"
        /\ curriculumData # NULL /\ curriculumData = response["curriculum"]
        /\ questionsData # NULL /\ questionsData = response["questions"]

\* C4 witness: the website has called generateStats and created its charts
C4_Witness ==
    /\ variant = "website"
    /\ "createTimeline" \in invoked
    /\ "generateStats" \in invoked

\* C5: at every step the two documents are both unset or both set.
C5_AtomicPublication == (curriculumData = NULL) <=> (questionsData = NULL)

\* C6: once a data request has failed, no aggregation function is or has been
\* called, and when initApp has ended the error holds the message of a failed
\* data request (in the docs variant, with the error panel shown).
C6_FailedLoadNoAggregation ==
    (\E e \in DataEndpoints : fetchState[e] = "failed") =>
        /\ invoked = {}
        /\ stats = <<>> /\ timelineData = NULL /\ difficultyLevels = NULL
        /\ pc = "done" =>
              /\ error # NULL
              /\ error.kind \in FailureKinds
              /\ error.where \in DataEndpoints
              /\ fetchState[error.where] = "failed"
              /\ variant = "website" => ~loading
              /\ variant = "docs" => display = showError

\* C6 witness: initApp has ended after the question request failed while the
\* curriculum request had been answered
C6_Witness ==
    /\ pc = "done"
    /\ fetchState["questions"] = "failed"
    /\ fetchState["curriculum"] = "ok"
    /\ error # NULL

\* C7: in the website, once the statistics request has failed, stats holds
\* the four numbers generateStatsLocally computes from the loaded questions,
\* the first being their number, and error is still null.
C7_StatisticsFallback ==
    (variant = "website" /\ fetchState["statistics"] = "failed") =>
        /\ "generateStatsLocally" \in invoked
        /\ Len(stats) = 4
        /\ stats[1].number = Len(LoadedQuestions)
        /\ stats = generateStatsLocally(LoadedQuestions)
        /\ error = NULL

\* C7 witness: the fallback has run on a collection of two questions
C7_Witness ==
    /\ variant = "website"
    /\ fetchState["statistics"] = "failed"
    /\ Len(stats) = 4
    /\ stats[1].number = 2

\* C8: the numbers shown from the precomputed source are the numbers
\* generateStatsLocally computes from the same questions.
C8_PrecomputedEqualsLocal ==
    (variant = "website" /\ fetchState["statistics"] = "ok") =>
        stats = generateStatsLocally(LoadedQuestions)

\* C9's rule, on the lower-cased type ('' when absent)
DifficultyAsClaimed(q) ==
    LET type == IF Has(q, "type") THEN toLowerCase(q.type) ELSE <<>>
    IN  CASE Contains(type, <<"s", "h", "o", "r", "t">>) \/ Contains(type, <<"t", "r", "u", "e">>)
               \/ Contains(type, <<"m", "u", "l", "t", "i", "p", "l", "e">>) -> "Easy"
          [] ~(Contains(type, <<"s", "h", "o", "r", "t">>) \/ Contains(type, <<"t", "r", "u", "e">>)
                 \/ Contains(type, <<"m", "u", "l", "t", "i", "p", "l", "e">>))
               /\ (Contains(type, <<"e", "s", "s", "a", "y">>) \/ Contains(type, <<"c", "a", "l", "c", "u", "l", "a", "t", "i", "o", "n">>)) -> "Hard"
          [] OTHER -> "Medium"

\* C9: every difficulty bucket holds the number of questions the rule puts in
\* it (short, true, multiple -> Easy; else essay, calculation -> Hard; else
\* Medium, also without a type); a collection of the single question
\* "Multiple Choice" is all Easy, "Essay Question" all Hard, "Programming" or
\* no type all Medium.
C9_DifficultyClassification ==
    difficultyLevels # NULL =>
        /\ \A d \in {"Easy", "Medium", "Hard"} :
              difficultyLevels.value[d]
                 = CountIndices(LoadedQuestions, LAMBDA q : DifficultyAsClaimed(q) = d)
        /\ Len(LoadedQuestions) = 1 =>
              LET q == LoadedQuestions[1]
              IN  /\ Has(q, "type") /\ q.type = <<"M", "u", "l", "t", "i", "p", "l", "e", " ", "C", "h", "o", "i", "c", "e">>
                        => difficultyLevels.value.Easy = 1
                  /\ Has(q, "type") /\ q.type = <<"E", "s", "s", "a", "y", " ", "Q", "u", "e", "s", "t", "i", "o", "n">>
                        => difficultyLevels.value.Hard = 1
                  /\ Has(q, "type") /\ q.type = <<"P", "r", "o", "g", "r", "a", "m", "m", "i", "n", "g">>
                        => difficultyLevels.value.Medium = 1
                  /\ ~Has(q, "type") => difficultyLevels.value.Medium = 1

\* C9 witness: the buckets of a collection of "Short Essay" (both an Easy and
\* a Hard word) and a question without a type
C9_Witness ==
    /\ difficultyLevels # NULL
    /\ Len(LoadedQuestions) = 2
    /\ LoadedQuestions[1].id = 5
    /\ ~Has(LoadedQuestions[2], "type")
    /\ difficultyLevels.value.Easy = 1
    /\ difficultyLevels.value.Medium = 1

\* C10: the uniqueTypes computed locally is the number of distinct type
\* values present on the questions; questions without a type add nothing.
C10_UniqueTypesPresentOnly ==
    (Len(stats) = 4 /\ (variant = "docs" \/ fetchState["statistics"] = "failed")) =>
        stats[2].number
            = Cardinality({q.type : q \in {p \in Elements(LoadedQuestions) : Has(p, "type")}})

\* the sum of the counters of an object over a set of its keys
RECURSIVE SumOver(_, _)
SumOver(obj, keys) ==
    IF keys = {} THEN 0
    ELSE LET key == CHOOSE k \in keys : TRUE
         IN  obj[key] + SumOver(obj, keys \ {key})

\* the type labels present on the loaded questions
PresentTypes == {q.type : q \in {p \in Elements(LoadedQuestions) : Has(p, "type")}}

\* C11 as stated: typeCounts maps every type label to the number of questions
\* with that type, a question with an absent type being counted under
\* "Unknown", and the counters sum to the number of questions.
C11_TypeCountsAbsentUnderUnknown ==
    typeCounts # NULL =>
        /\ \A label \in (DOMAIN typeCounts.value) \cup PresentTypes \cup {Unknown} :
              CountAt(typeCounts.value, label)
                 = CountIndices(LoadedQuestions,
                                LAMBDA q : \/ Has(q, "type") /\ q.type = label
                                           \/ ~Has(q, "type") /\ label = Unknown)
        /\ SumOver(typeCounts.value, DOMAIN typeCounts.value) = Len(LoadedQuestions)

\* C11 amended: typeCounts maps every non-empty type label to the number of
\* questions with that type, a question whose type is absent or the empty
\* string being counted under "Unknown"; the empty string is no label of
\* typeCounts, and the counters sum to the number of questions.
C11_TypeCountsAbsentOrEmptyUnderUnknown ==
    typeCounts # NULL =>
        /\ <<>> \notin DOMAIN typeCounts.value
        /\ \A label \in ((DOMAIN typeCounts.value) \cup PresentTypes \cup {Unknown}) \ {<<>>} :
              CountAt(typeCounts.value, label)
                 = CountIndices(LoadedQuestions,
                                LAMBDA q : \/ Has(q, "type") /\ q.type = label
                                           \/ ~Has(q, "type") /\ label = Unknown
                                           \/ Has(q, "type") /\ q.type = <<>> /\ label = Unknown)
        /\ SumOver(typeCounts.value, DOMAIN typeCounts.value) = Len(LoadedQuestions)

\* C11 witness: typeCounts of a question without a type and one with type '':
\* both are counted under "Unknown"
C11_Witness ==
    /\ typeCounts # NULL
    /\ Len(LoadedQuestions) = 2
    /\ ~Has(LoadedQuestions[1], "type")
    /\ Has(LoadedQuestions[2], "type") /\ LoadedQuestions[2].type = <<>>
    /\ CountAt(typeCounts.value, Unknown) = 2

\* the stats on display were computed in the browser (docs always, website
\* after /api/statistics failed)
StatsComputedLocally ==
    Len(stats) = 4 /\ (variant = "docs" \/ fetchState["statistics"] = "failed")

\* the chapter ids a refer cites: the maximal digit runs that follow an
\* occurrence of "Chapter " (stated on positions)
ChapterIds(refer) ==
    { SubSeq(refer, i + 9, e) :
        <<i, e>> \in { p \in (0..Len(refer)) \X (1..Len(refer)) :
                         /\ p[1] + 9 <= p[2]
                         /\ \A j \in 1..8 : refer[p[1] + j] = ChapterLiteral[j]
                         /\ \A j \in (p[1] + 9)..p[2] : refer[j] \in Digits
                         /\ p[2] = Len(refer) \/ refer[p[2] + 1] \notin Digits } }

\* C12: the chaptersCovered computed locally is the number of distinct
\* chapter ids cited by the refer fields of all questions, an id cited twice
\* (by one question or by two) counting once; one question with refer
\* "Chapter 3 and Chapter 3 again" gives 1.
C12_ChaptersCoveredDistinct ==
    StatsComputedLocally =>
        /\ stats[4].number
              = Cardinality(UNION { ChapterIds(q.refer) :
                                      q \in {p \in Elements(LoadedQuestions) : Has(p, "refer")} })
        /\ (Len(LoadedQuestions) = 1 /\ LoadedQuestions[1].id = 3) => stats[4].number = 1

\* C12 witness: the local stats of two questions that cite chapter 3 twice
\* each
C12_Witness ==
    /\ StatsComputedLocally
    /\ Len(LoadedQuestions) = 2
    /\ \A i \in 1..2 : LoadedQuestions[i].id = 3
    /\ stats[4].number = 1

\* the refer of a question is absent or empty
NoRefer(q) == ~Has(q, "refer") \/ q.refer = <<>>

\* the loaded questions without those whose refer is absent or empty
QuestionsWithRefer == SelectSeq(LoadedQuestions, LAMBDA q : ~NoRefer(q))

\* the cell (kp, chapter) of a heatmap, 0 when it was never incremented
Cell(heatmap, kp, chapter) ==
    IF kp \in DOMAIN heatmap.knowledgePoints
    THEN CountAt(heatmap.knowledgePoints[kp], chapter)
    ELSE 0

\* the number of times kp occurs in the knowledge_points array of q
Occurrences(q, kp) ==
    IF Has(q, "knowledge_points") /\ IsArray(q.knowledge_points)
    THEN Cardinality({i \in DOMAIN q.knowledge_points.array :
                         q.knowledge_points.array[i] = kp})
    ELSE 0

\* a question without refer adds nothing to chaptersCovered and to
\* chapterCounts: both are what the questions with a refer alone give
NoReferNoChapterCount ==
    /\ StatsComputedLocally => stats[4].number = ChaptersCovered(QuestionsWithRefer)
    /\ chapterCounts # NULL =>
          chapterCounts.value = createChapterImportanceChartLocally(QuestionsWithRefer)

SomeChapterWithoutContent ==
    \E i \in DOMAIN LoadedChapters : ~Has(LoadedChapters[i], "content")

\* C14: a chapter whose content is missing is a zero-contribution record of
\* every aggregation over the curriculum: once both documents are loaded no
\* aggregation has raised because of it, and the timeline holds no item of
\* such a chapter.
C14_MissingContentZeroContribution ==
    (curriculumData # NULL /\ questionsData # NULL /\ SomeChapterWithoutContent) =>
        /\ error = NULL
        /\ timelineData # NULL =>
              \A k \in DOMAIN timelineData.value :
                  \E i \in DOMAIN LoadedChapters :
                      /\ Has(LoadedChapters[i], "content")
                      /\ LoadedChapters[i].chapterNumber = timelineData.value[k].chapter

\* both documents are loaded
BothLoaded == curriculumData # NULL /\ questionsData # NULL

\* every aggregate computed so far is empty or zero
AggregatesEmpty ==
    /\ timelineData # NULL =>
          \A k \in DOMAIN timelineData.value : timelineData.value[k].questionCount = 0
    /\ typeCounts # NULL => DOMAIN typeCounts.value = {}
    /\ chapterCounts # NULL => DOMAIN chapterCounts.value = {}
    /\ knowledgeHeatmap # NULL =>
          /\ DOMAIN knowledgeHeatmap.value.knowledgePoints = {}
          /\ knowledgeHeatmap.value.chapters = {}
    /\ difficultyLevels # NULL =>
          \A d \in DOMAIN difficultyLevels.value : difficultyLevels.value[d] = 0
    /\ StatsComputedLocally => \A i \in 1..4 : stats[i].number = 0

C16_InputsUnchanged ==
    [][/\ curriculumData # NULL => curriculumData' = curriculumData
       /\ questionsData # NULL => questionsData' = questionsData]_vars

\* C16 witness: every aggregation of the website has run on two different
\* questions, and both documents are still the bodies the server answered
C16_Witness ==
    /\ timelineData # NULL
    /\ difficultyLevels # NULL
    /\ typeCounts # NULL
    /\ knowledgeHeatmap # NULL
    /\ chapterCounts # NULL
    /\ StatsComputedLocally
    /\ Len(LoadedChapters) > 0
    /\ Len(LoadedQuestions) = 2
    /\ LoadedQuestions[1] # LoadedQuestions[2]
    /\ curriculumData = response["curriculum"]
    /\ questionsData = response["questions"]

\* the rearrangements of a sequence
Rearrangements(array) ==
    { [i \in DOMAIN array |-> array[order[i]]] :
        order \in { f \in [DOMAIN array -> DOMAIN array] :
                       \A i, j \in DOMAIN array : f[i] = f[j] => i = j } }

\* a timeline without the order inside the question lists: per item its
\* chapter, its label, and the members and the size of its related questions
Unordered(timeline) ==
    [k \in DOMAIN timeline |->
        [chapter |-> timeline[k].chapter,
         content |-> timeline[k].content,
         members |-> Elements(timeline[k].questions),
         size |-> timeline[k].questionCount]]

\* C17: the aggregates do not depend on the order of the questions: whenever
\* a step computes an aggregate, its value is what the same aggregation gives
\* for every rearrangement of the loaded questions (the four summary
\* numbers, typeCounts, chapterCounts, the heatmap cells, the difficulty
\* buckets, and the members and size of every content item's related
\* questions).
C17_OrderIndependent ==
    [][LET others == Rearrangements(questionsData'.questions)
                        \ {questionsData'.questions}
       IN  /\ (stats' # stats /\ (variant = "docs" \/ fetchState'["statistics"] = "failed"))
                 => \A questions \in others :
                        stats' = generateStatsLocally(questions)
           /\ typeCounts' # typeCounts
                 => \A questions \in others :
                        typeCounts'.value = createQuestionTypesChartLocally(questions)
           /\ chapterCounts' # chapterCounts
                 => \A questions \in others :
                        chapterCounts'.value = createChapterImportanceChartLocally(questions)
           /\ knowledgeHeatmap' # knowledgeHeatmap
                 => \A questions \in others :
                        knowledgeHeatmap'.value = createKnowledgeHeatmapLocally(questions)
           /\ difficultyLevels' # difficultyLevels
                 => \A questions \in others :
                        difficultyLevels'.value = createDifficultyDistributionChart(questions)
           /\ timelineData' # timelineData
                 => \A questions \in others :
                        Unordered(timelineData'.value)
                           = Unordered(createTimeline(
                                 curriculumData'.distributedSystemsCurriculum,
                                 questions))]_vars

\* C17 witness: the aggregates of two questions that differ in type, refer
\* and knowledge points, both related to the first content item
C17_Witness ==
    /\ StatsComputedLocally
    /\ typeCounts # NULL
    /\ chapterCounts # NULL
    /\ knowledgeHeatmap # NULL
    /\ difficultyLevels # NULL
    /\ timelineData # NULL
    /\ Len(LoadedQuestions) = 2
    /\ LoadedQuestions[1].id = 6
    /\ LoadedQuestions[2].id = 1
    /\ Len(timelineData.value) > 0
    /\ timelineData.value[1].questionCount = 2

\* the panels of the docs page that are displayed
DisplayedPanels == {panel \in DOMAIN display : display[panel] = "block"}

\* C18: the failure display is all or nothing. In the docs page, once
\* showLoading has run, every panel is either displayed or hidden, at most
\* one of loading, error and main content is displayed, and the error panel
\* is displayed exactly when an error was caught; in the website, an error
\* is never set together with a loaded document, a computed aggregate or
\* the loading flag.
C18_FailureAllOrNothing ==
    /\ (variant = "docs" /\ pc # "start") =>
          /\ \A panel \in DOMAIN display : display[panel] \in {"block", "none"}
          /\ Cardinality(DisplayedPanels) <= 1
          /\ ~(display.error = "block" /\ display.main = "block")
          /\ display.error = "block" <=> error # NULL
    /\ (variant = "website" /\ error # NULL) =>
          /\ ~loading
          /\ curriculumData = NULL
          /\ questionsData = NULL
          /\ stats = <<>>
          /\ timelineData = NULL

\* C18 witness: the docs page after createVisualizations threw: both
\* documents are loaded and the stats computed, and only the error panel is
\* displayed
C18_Witness ==
    /\ variant = "docs"
    /\ BothLoaded
    /\ Len(stats) = 4
    /\ error # NULL
    /\ DisplayedPanels = {"error"}

\* a character normalizeText keeps: a word character or whitespace
Kept(c) ==
    \/ c \in {UpperCase[i] : i \in DOMAIN UpperCase}
    \/ c \in {LowerCase[i] : i \in DOMAIN LowerCase}
    \/ c \in Digits \cup {"_"}
    \/ c \in {" ", "\t", "\n", "\r"}

\* the kept characters of text, in order, upper-case letters lowered
KeptLowered ==
    LET kept == SelectSeq(text, Kept)
    IN  [i \in DOMAIN kept |->
            IF \E j \in DOMAIN UpperCase : UpperCase[j] = kept[i]
            THEN LowerCase[CHOOSE j \in DOMAIN UpperCase : UpperCase[j] = kept[i]]
            ELSE kept[i]]

\* C19: normalizeText(text) is text lowered and without the characters that
\* are neither word characters nor whitespace, cut at both ends to its first
\* and last character that is not whitespace, the whitespace in between
\* left as it is; " Two-Phase Commit! " gives "twophase commit", and a text
\* with nothing but whitespace and punctuation gives "".
C19_NormalizeText ==
    normalized # NULL =>
        LET result == normalized.value
            solid == {i \in DOMAIN KeptLowered : ~IsWhiteSpace(KeptLowered[i])}
        IN  /\ solid = {} => result = <<>>
            /\ solid # {} =>
                  LET first == CHOOSE i \in solid : \A j \in solid : i <= j
                      last == CHOOSE i \in solid : \A j \in solid : j <= i
                  IN  /\ Len(result) = last - first + 1
                      /\ \A k \in DOMAIN result : result[k] = KeptLowered[first + k - 1]
            /\ text = PaddedLabel =>
                  result = <<"t", "w", "o", "p", "h", "a", "s", "e", " ", "c", "o", "m", "m", "i", "t">>

\* C19 witness: the call with " Two-Phase Commit! " has returned
C19_Witness ==
    /\ text = PaddedLabel
    /\ normalized # NULL
    /\ normalized.value
          = <<"t", "w", "o", "p", "h", "a", "s", "e", " ", "c", "o", "m", "m", "i", "t">>

\* a label that normalizes to the empty string: every character of it is
\* whitespace or is neither a word character nor whitespace
Degenerate(label) == \A i \in DOMAIN label : ~Kept(label[i]) \/ IsWhiteSpace(label[i])

\* C20: empty labels match everything: in the timeline, a question with a
\* knowledge point that normalizes to the empty string is among the related
\* questions of every content item, and a content item whose label
\* normalizes to the empty string has every question with a non-empty
\* knowledge_points array among its related questions.
C20_EmptyLabelsMatchEverything ==
    timelineData # NULL =>
        \A k \in DOMAIN timelineData.value :
            \A q \in Elements(LoadedQuestions) :
                LET item == timelineData.value[k]
                    kps == IF Has(q, "knowledge_points") /\ IsArray(q.knowledge_points)
                           THEN q.knowledge_points.array
                           ELSE <<>>
                IN  /\ (\E i \in DOMAIN kps : Degenerate(kps[i]))
                          => q \in Elements(item.questions)
                    /\ (Degenerate(item.content) /\ kps # <<>>)
                          => q \in Elements(item.questions)

\* C20 witness: a question whose only knowledge point is "!!" is related to
\* the item "RPC", and the item "--" holds that question and a question on
\* RPC
C20_Witness ==
    /\ timelineData # NULL
    /\ Len(LoadedQuestions) = 2
    /\ LoadedQuestions[1].id = 7
    /\ LoadedQuestions[2].id = 1
    /\ Len(timelineData.value) = 5
    /\ timelineData.value[1].content = <<"R", "P", "C">>
    /\ timelineData.value[1].questionCount = 2
    /\ timelineData.value[5].content = <<"-", "-">>
    /\ timelineData.value[5].questionCount = 2
    /\ timelineData.value[3].questions = <<LoadedQuestions[1]>>

\* the (chapterNumber, label) pairs of the loaded curriculum
ContentItems ==
    UNION { { <<LoadedChapters[i].chapterNumber, LoadedChapters[i].content[j]>> :
                j \in DOMAIN LoadedChapters[i].content } :
            i \in {c \in DOMAIN LoadedChapters : Has(LoadedChapters[c], "content")} }

\* C21: content items keep their chapter in every derived structure: the
\* timeline and the importance statistics hold, for every (chapterNumber,
\* label) pair of the curriculum, an entry with that label attributed to
\* that chapter, also when two chapters share a label.
C21_ChapterIdentityKept ==
    /\ timelineData # NULL =>
          \A item \in ContentItems :
              \E k \in DOMAIN timelineData.value :
                  /\ timelineData.value[k].chapter = item[1]
                  /\ timelineData.value[k].content = item[2]
    /\ knowledgePointStats # NULL =>
          \A item \in ContentItems :
              \E point \in DOMAIN knowledgePointStats.value :
                  /\ point = item[2]
                  /\ knowledgePointStats.value[point].chapter = item[1]

\* C22: the questionCount createDifficultyDistribution shows for a chapter is
\* the number of questions whose refer cites that chapter, the cited chapter
\* being the whole digit run after "Chapter " (a question citing only
\* "Chapter 10" is not counted for chapter "1"); it is the number of
\* questions that pass the per-chapter test of createQuestionTypeMatrix.
C22_QuestionCountByFullChapterId ==
    difficultyDistribution # NULL =>
        \A index \in DOMAIN difficultyDistribution.value :
            LET metrics == difficultyDistribution.value[index]
            IN  /\ metrics.questionCount
                      = CountIndices(LoadedQuestions,
                                     LAMBDA q : /\ Has(q, "refer")
                                                /\ metrics.chapter \in ChapterIds(q.refer))
                /\ metrics.questionCount
                      = CountIndices(LoadedQuestions,
                                     LAMBDA q : CitesChapter(q, metrics.chapter))

\* the number of content items of the i-th loaded chapter
ContentLength(i) ==
    IF Has(LoadedChapters[i], "content") THEN Len(LoadedChapters[i].content) ELSE 0

\* C23: the timeline holds exactly one item per (chapter, content position),
\* chapters in curriculum order and content in its order within a chapter;
\* a chapter with absent or empty content gives no item; the number of items
\* is the sum of the content lengths, and every item's questionCount is the
\* length of its list of related questions.
C23_OneItemPerContentPosition ==
    timelineData # NULL =>
        /\ Len(timelineData.value) = SumTo(ContentLength, Len(LoadedChapters))
        /\ \A i \in DOMAIN LoadedChapters :
              \A j \in 1..ContentLength(i) :
                  LET item == timelineData.value[SumTo(ContentLength, i - 1) + j]
                  IN  /\ item.chapter = LoadedChapters[i].chapterNumber
                      /\ item.chapterTitle = LoadedChapters[i].chapterTitle
                      /\ item.content = LoadedChapters[i].content[j]
        /\ \A k \in DOMAIN timelineData.value :
              timelineData.value[k].questionCount = Len(timelineData.value[k].questions)

\* C23 witness: the timeline of a curriculum whose first chapter has no
\* content and whose second has one label, which no loaded question matches
C23_Witness ==
    /\ timelineData # NULL
    /\ Len(LoadedChapters) = 2
    /\ ~Has(LoadedChapters[1], "content")
    /\ Len(LoadedQuestions) = 1
    /\ Len(timelineData.value) = 1
    /\ timelineData.value[1].chapter = LoadedChapters[2].chapterNumber
    /\ timelineData.value[1].questionCount = 0

\* C24: the two front ends compute the same results from the same inputs:
\* whenever the docs page computes its stats or its timeline, the value is
\* what the website's generateStatsLocally or createTimeline gives for the
\* loaded documents, and whenever the website computes its local stats or
\* its timeline, the value is what the docs generateStats or createTimeline
\* gives (the same four numbers; for every item the same chapter, label,
\* related-question list and count).
C24_VariantsAgree ==
    [][/\ (variant = "docs" /\ stats' # stats)
             => stats' = generateStatsLocally(questionsData'.questions)
       /\ (variant = "website" /\ stats' # stats /\ fetchState'["statistics"] = "failed")
             => stats' = generateStats(questionsData'.questions)
       /\ (variant = "docs" /\ timelineData' # timelineData)
             => timelineData'.value
                  = createTimeline(curriculumData'.distributedSystemsCurriculum,
                                   questionsData'.questions)
       /\ (variant = "website" /\ timelineData' # timelineData)
             => timelineData'.value
                  = createTimelineDocs(curriculumData'.distributedSystemsCurriculum,
                                       questionsData'.questions)]_vars

\* C24 witness: the docs page has computed the stats and the timeline of a
\* question without a type and a question on RPC
C24_Witness ==
    /\ variant = "docs"
    /\ timelineData # NULL
    /\ Len(stats) = 4
    /\ Len(LoadedQuestions) = 2
    /\ LoadedQuestions[1].id = 3
    /\ LoadedQuestions[2].id = 1
    /\ stats[2].number = 2
    /\ Len(timelineData.value) = 5
    /\ timelineData.value[1].questions = <<LoadedQuestions[2]>>

\* C25: every question is in exactly one difficulty bucket: Easy, Medium,
\* Hard and Unknown sum to the number of questions, and the Unknown bucket
\* is 0 for every input, also for questions without a type or with the type
\* "Unknown".
C25_BucketsSumUnknownZero ==
    difficultyLevels # NULL =>
        /\ DOMAIN difficultyLevels.value = {"Easy", "Medium", "Hard", "Unknown"}
        /\ difficultyLevels.value.Easy + difficultyLevels.value.Medium
               + difficultyLevels.value.Hard + difficultyLevels.value.Unknown
             = Len(LoadedQuestions)
        /\ difficultyLevels.value.Unknown = 0

\* C25 witness: the buckets of a question without a type and a question of
\* type "Unknown": both are Medium
C25_Witness ==
    /\ difficultyLevels # NULL
    /\ Len(LoadedQuestions) = 2
    /\ ~Has(LoadedQuestions[1], "type")
    /\ Has(LoadedQuestions[2], "type") /\ LoadedQuestions[2].type = Unknown
    /\ difficultyLevels.value.Medium = 2
    /\ difficultyLevels.value.Unknown = 0

\* initApp has left the loading state: in the website loading is false and
\* exactly one of the error and the two documents is set; in the docs page
\* the loading panel is hidden and the error panel or the main content is
\* displayed
LeftLoading ==
    IF variant = "website"
    THEN /\ ~loading
         /\ (error # NULL) # (curriculumData # NULL /\ questionsData # NULL)
    ELSE /\ display.loading = "none"
         /\ display.error = "block" \/ display.main = "block"

\* C26: initApp always leaves the loading state: every fetch resolving or
\* rejecting in the end, the page eventually has left loading, with the
\* error or with both documents, and stays so.
C26_EventuallyLeavesLoading == <>[]LeftLoading

\* C26 witness: the website left loading through the catch while the other
\* request was still pending
C26_Witness ==
    /\ variant = "website"
    /\ LeftLoading
    /\ error # NULL
    /\ \E endpoint \in DataEndpoints : fetchState[endpoint] = "pending"

====
